---- MODULE Spec2Model ----
(***************************************************************************)
(* ClearSkies monitoring agent: the polling cycle (index.ts), the          *)
(* threshold engine (thresholdEngine.ts), the weather poller              *)
(* (weatherPoller.ts), the vehicle resolver (geotabResolver.ts), the alert *)
(* dispatcher (alertDispatcher.ts) and the persistence wrappers            *)
(* (supabaseClient.ts).                                                    *)
(*                                                                         *)
(* Times are in milliseconds, as Date.now() and Date.getTime() are.        *)
(* Weather measurements are taken on the integer grid.                     *)
(***************************************************************************)
EXTENDS Integers, Sequences, FiniteSets, Bags, TLC

VARIABLES
    demoMode,          \* process.env.DEMO_MODE === "true"
    _session,          \* geotabResolver's cached GeotabSession, or Null
    sites,             \* table sites: the ids of the rows with active = true
    now,               \* the wall clock, Date.now()
    holds_log,         \* table holds_log: sequence of rows, id = position
    notification_log,  \* table notification_log: bag of rows
    cycle,             \* number of poll() invocations so far
    timer,             \* "set" once main has called setInterval(poll, ...)
    overrun,           \* whether a poll() can take a poll interval or longer
    pollPc,            \* position of each poll() invocation: "idle" | "running"
    pc,                \* position of each processSite(site)
    local,             \* the locals of each processSite(site)
    probe,             \* inputs of the pure functions under evaluation
    result             \* last value returned by a pure function

vars == <<demoMode, _session, sites, now, holds_log, notification_log,
          cycle, timer, overrun, pollPc, pc, local, probe, result>>

\* ---------------------------------------------------------------- bounds
MaxFleet    == 2   \* longest vehicle list a dispatch is evaluated on
MaxHolds    == 2   \* rows ever inserted in holds_log
MaxCycles   == 2   \* polls started
MaxTicks    == 1   \* clock advances
MaxDevices  == 2   \* longest device list a zone query is evaluated on

\* ---------------------------------------------------------------- values
\* null for a value that is otherwise a record (HoldRecord | null, ...)
NULL == [null |-> TRUE]
\* null for a value that is otherwise a number (number | null, string | null)
Null == -1

Sites == {"A", "B"}

\* the poll() invocations that run at a time: the one the timer started last and
\* the one before it
Polls == {1, 2}

\* a pipeline is the processSite(site) of a poll() invocation
Pipelines == Sites \X Polls

siteOf(p) == p[1]

pollOf(p) == p[2]

OshaRule == {"LIGHTNING_30_30", "HIGH_WIND_GENERAL",
             "HIGH_WIND_MATERIAL_HANDLING", "EXTREME_HEAT"}

POLL_INTERVAL_MS == 5 * 60 * 1000

\* the clock advances in steps of six poll intervals (30 minutes)
TickMs == 6 * POLL_INTERVAL_MS

\* ---------------------------------------------------------------- thresholdEngine.ts
PROD == [lightningPct |-> 40, highWindGeneralMph |-> 40,
         highWindMaterialMph |-> 30, extremeHeatC |-> 38]

DEMO == [lightningPct |-> 10, highWindGeneralMph |-> 5,
         highWindMaterialMph |-> 3, extremeHeatC |-> 25]

getThresholds == IF demoMode THEN DEMO ELSE PROD

priority == <<"LIGHTNING_30_30", "HIGH_WIND_GENERAL",
              "HIGH_WIND_MATERIAL_HANDLING", "EXTREME_HEAT">>

\* Array.prototype.indexOf
indexOf(arr, x) ==
    IF \E i \in 1..Len(arr) : arr[i] = x
    THEN (CHOOSE i \in 1..Len(arr) : arr[i] = x /\ \A j \in 1..(i-1) : arr[j] # x) - 1
    ELSE -1

\* breaches.sort((a, b) => priority.indexOf(a.rule) - priority.indexOf(b.rule)):
\* a stable sort, as Array.prototype.sort is
RECURSIVE insertByPriority(_, _)
insertByPriority(sorted, b) ==
    IF sorted = <<>> THEN <<b>>
    ELSE IF indexOf(priority, b.rule) - indexOf(priority, Head(sorted).rule) < 0
         THEN <<b>> \o sorted
         ELSE <<Head(sorted)>> \o insertByPriority(Tail(sorted), b)

RECURSIVE sortByPriority(_)
sortByPriority(breaches) ==
    IF breaches = <<>> THEN <<>>
    ELSE insertByPriority(sortByPriority(SubSeq(breaches, 1, Len(breaches) - 1)),
                          breaches[Len(breaches)])

\* faulty variant: the material-handling threshold is tested before the general one
pushedBreaches_materialFirst(weather) ==
    LET t == getThresholds
        lightning ==
            IF weather.lightning_probability_pct >= t.lightningPct
            THEN << [rule |-> "LIGHTNING_30_30",
                     value |-> weather.lightning_probability_pct,
                     threshold |-> t.lightningPct,
                     hold_duration_mins |-> 30] >>
            ELSE << >>
        wind ==
            IF weather.wind_gust_mph >= t.highWindMaterialMph
            THEN << [rule |-> "HIGH_WIND_MATERIAL_HANDLING",
                     value |-> weather.wind_gust_mph,
                     threshold |-> t.highWindMaterialMph,
                     hold_duration_mins |-> Null] >>
            ELSE IF weather.wind_gust_mph >= t.highWindGeneralMph
            THEN << [rule |-> "HIGH_WIND_GENERAL",
                     value |-> weather.wind_gust_mph,
                     threshold |-> t.highWindGeneralMph,
                     hold_duration_mins |-> Null] >>
            ELSE << >>
        heat ==
            IF weather.apparent_temp_c >= t.extremeHeatC
            THEN << [rule |-> "EXTREME_HEAT",
                     value |-> weather.apparent_temp_c,
                     threshold |-> t.extremeHeatC,
                     hold_duration_mins |-> Null] >>
            ELSE << >>
    IN lightning \o wind \o heat

\* faulty variant: the wind rules look at the sustained wind speed
pushedBreaches_sustained(weather) ==
    LET t == getThresholds
        lightning ==
            IF weather.lightning_probability_pct >= t.lightningPct
            THEN << [rule |-> "LIGHTNING_30_30",
                     value |-> weather.lightning_probability_pct,
                     threshold |-> t.lightningPct,
                     hold_duration_mins |-> 30] >>
            ELSE << >>
        wind ==
            IF weather.wind_speed_mph >= t.highWindGeneralMph
            THEN << [rule |-> "HIGH_WIND_GENERAL",
                     value |-> weather.wind_gust_mph,
                     threshold |-> t.highWindGeneralMph,
                     hold_duration_mins |-> Null] >>
            ELSE IF weather.wind_speed_mph >= t.highWindMaterialMph
            THEN << [rule |-> "HIGH_WIND_MATERIAL_HANDLING",
                     value |-> weather.wind_gust_mph,
                     threshold |-> t.highWindMaterialMph,
                     hold_duration_mins |-> Null] >>
            ELSE << >>
        heat ==
            IF weather.apparent_temp_c >= t.extremeHeatC
            THEN << [rule |-> "EXTREME_HEAT",
                     value |-> weather.apparent_temp_c,
                     threshold |-> t.extremeHeatC,
                     hold_duration_mins |-> Null] >>
            ELSE << >>
    IN lightning \o wind \o heat

\* faulty variant: a breach reports the production threshold under either preset
pushedBreaches_prodThreshold(weather) ==
    LET t == getThresholds
        lightning ==
            IF weather.lightning_probability_pct >= t.lightningPct
            THEN << [rule |-> "LIGHTNING_30_30",
                     value |-> weather.lightning_probability_pct,
                     threshold |-> PROD.lightningPct,
                     hold_duration_mins |-> 30] >>
            ELSE << >>
        wind ==
            IF weather.wind_gust_mph >= t.highWindGeneralMph
            THEN << [rule |-> "HIGH_WIND_GENERAL",
                     value |-> weather.wind_gust_mph,
                     threshold |-> PROD.highWindGeneralMph,
                     hold_duration_mins |-> Null] >>
            ELSE IF weather.wind_gust_mph >= t.highWindMaterialMph
            THEN << [rule |-> "HIGH_WIND_MATERIAL_HANDLING",
                     value |-> weather.wind_gust_mph,
                     threshold |-> PROD.highWindMaterialMph,
                     hold_duration_mins |-> Null] >>
            ELSE << >>
        heat ==
            IF weather.apparent_temp_c >= t.extremeHeatC
            THEN << [rule |-> "EXTREME_HEAT",
                     value |-> weather.apparent_temp_c,
                     threshold |-> PROD.extremeHeatC,
                     hold_duration_mins |-> Null] >>
            ELSE << >>
    IN lightning \o wind \o heat

\* the breaches array before it is sorted
pushedBreaches(weather) ==
    LET t == getThresholds
        lightning ==
            IF weather.lightning_probability_pct >= t.lightningPct
            THEN << [rule |-> "LIGHTNING_30_30",
                     value |-> weather.lightning_probability_pct,
                     threshold |-> t.lightningPct,
                     hold_duration_mins |-> 30] >>
            ELSE << >>
        wind ==
            IF weather.wind_gust_mph >= t.highWindGeneralMph
            THEN << [rule |-> "HIGH_WIND_GENERAL",
                     value |-> weather.wind_gust_mph,
                     threshold |-> t.highWindGeneralMph,
                     hold_duration_mins |-> Null] >>
            ELSE IF weather.wind_gust_mph >= t.highWindMaterialMph
            THEN << [rule |-> "HIGH_WIND_MATERIAL_HANDLING",
                     value |-> weather.wind_gust_mph,
                     threshold |-> t.highWindMaterialMph,
                     hold_duration_mins |-> Null] >>
            ELSE << >>
        heat ==
            IF weather.apparent_temp_c >= t.extremeHeatC
            THEN << [rule |-> "EXTREME_HEAT",
                     value |-> weather.apparent_temp_c,
                     threshold |-> t.extremeHeatC,
                     hold_duration_mins |-> Null] >>
            ELSE << >>
    IN lightning \o wind \o heat

\* faulty variant: the last element of the sorted array is returned
evaluateThresholds_last(weather) ==
    LET breaches == pushedBreaches(weather)
    IN IF Len(breaches) = 0 THEN NULL
       ELSE sortByPriority(breaches)[Len(breaches)]

evaluateThresholds(weather) ==
    LET breaches == pushedBreaches(weather)
    IN IF Len(breaches) = 0 THEN NULL
       ELSE sortByPriority(breaches)[1]

\* faulty variant: the duration must be strictly exceeded
shouldClearHold_strict(rule, weather, triggeredAt, holdDurationMins) ==
    IF holdDurationMins # Null
    THEN now - triggeredAt > holdDurationMins * 60 * 1000
    ELSE LET t == getThresholds
         IN CASE rule = "HIGH_WIND_GENERAL" -> weather.wind_gust_mph < t.highWindGeneralMph
              [] rule = "HIGH_WIND_MATERIAL_HANDLING" -> weather.wind_gust_mph < t.highWindMaterialMph
              [] rule = "EXTREME_HEAT" -> weather.apparent_temp_c < t.extremeHeatC
              [] OTHER -> FALSE

\* faulty variant: a condition-based hold also clears at the threshold itself
shouldClearHold_atThreshold(rule, weather, triggeredAt, holdDurationMins) ==
    IF holdDurationMins # Null
    THEN now - triggeredAt >= holdDurationMins * 60 * 1000
    ELSE LET t == getThresholds
         IN CASE rule = "HIGH_WIND_GENERAL" -> weather.wind_gust_mph <= t.highWindGeneralMph
              [] rule = "HIGH_WIND_MATERIAL_HANDLING" -> weather.wind_gust_mph <= t.highWindMaterialMph
              [] rule = "EXTREME_HEAT" -> weather.apparent_temp_c <= t.extremeHeatC
              [] OTHER -> FALSE

shouldClearHold(rule, weather, triggeredAt, holdDurationMins) ==
    IF holdDurationMins # Null
    THEN LET elapsedMs == now - triggeredAt
         IN elapsedMs >= holdDurationMins * 60 * 1000
    ELSE LET t == getThresholds
         IN CASE rule = "HIGH_WIND_GENERAL" -> weather.wind_gust_mph < t.highWindGeneralMph
              [] rule = "HIGH_WIND_MATERIAL_HANDLING" -> weather.wind_gust_mph < t.highWindMaterialMph
              [] rule = "EXTREME_HEAT" -> weather.apparent_temp_c < t.extremeHeatC
              [] OTHER -> FALSE

\* ---------------------------------------------------------------- inputs
\* vehicle lists a zone query can return: vehicle k of a list is device k,
\* with its operator's contact k or with no contact resolved
VehicleListsUpTo(max) ==
    UNION { { [k \in 1..n |-> [device_id |-> k,
                                phone_number |-> IF hasPhone[k] THEN k ELSE Null]] :
              hasPhone \in [1..n -> BOOLEAN] } : n \in 0..max }

\* the vehicle lists getVehiclesInZone returns in the polling model: no vehicle,
\* or one vehicle with or without a contact
VehicleLists == VehicleListsUpTo(1)

\* snapshots fetchWeather returns in the polling model; each falls on the same
\* side of every threshold under both presets
WeatherSamples ==
    { [lightning_probability_pct |-> 0,  wind_speed_mph |-> 0,  wind_gust_mph |-> 0,
        apparent_temp_c |-> 20],
      [lightning_probability_pct |-> 50, wind_speed_mph |-> 0,  wind_gust_mph |-> 0,
        apparent_temp_c |-> 20],
      [lightning_probability_pct |-> 0,  wind_speed_mph |-> 30, wind_gust_mph |-> 42,
        apparent_temp_c |-> 20],
      [lightning_probability_pct |-> 50, wind_speed_mph |-> 30, wind_gust_mph |-> 42,
        apparent_temp_c |-> 40] }

\* ---------------------------------------------------------------- supabaseClient.ts
\* rows of holds_log that are open for a site
openHolds(siteId) ==
    { h \in { holds_log[k] : k \in 1..Len(holds_log) } :
        h.site_id = siteId /\ h.all_clear_at = Null }

\* the values a successful getActiveHold can return:
\* .eq(site_id).is(all_clear_at, null).order(triggered_at desc).limit(1).maybeSingle()
getActiveHold(siteId) ==
    IF openHolds(siteId) = {} THEN { NULL }
    ELSE { h \in openHolds(siteId) :
             \A g \in openHolds(siteId) : g.triggered_at <= h.triggered_at }

\* faulty variant: the row is inserted without the vehicle list
newHoldRow_unlisted(siteId, rule, weather, vehicles, durationMins) ==
    [ id |-> Len(holds_log) + 1,
      site_id |-> siteId,
      triggered_at |-> now,
      trigger_rule |-> rule,
      weather_snapshot |-> weather,
      vehicles_on_site |-> << >>,
      hold_duration_mins |-> durationMins,
      all_clear_at |-> Null,
      issued_by |-> "auto",
      notifications_sent |-> << >> ]

\* faulty variant: the breach's duration is not stored on the row
newHoldRow_untimed(siteId, rule, weather, vehicles, durationMins) ==
    [ id |-> Len(holds_log) + 1,
      site_id |-> siteId,
      triggered_at |-> now,
      trigger_rule |-> rule,
      weather_snapshot |-> weather,
      vehicles_on_site |-> vehicles,
      hold_duration_mins |-> Null,
      all_clear_at |-> Null,
      issued_by |-> "auto",
      notifications_sent |-> << >> ]

\* the row createHold inserts (created_at, set by the database, is left out)
newHoldRow(siteId, rule, weather, vehicles, durationMins) ==
    [ id |-> Len(holds_log) + 1,
      site_id |-> siteId,
      triggered_at |-> now,
      trigger_rule |-> rule,
      weather_snapshot |-> weather,
      vehicles_on_site |-> vehicles,
      hold_duration_mins |-> durationMins,
      all_clear_at |-> Null,
      issued_by |-> "auto",
      notifications_sent |-> << >> ]

\* faulty variant: the clearing timestamp is set without the notification records
closedRows_unrecorded(holdId, notifications) ==
    [ k \in 1..Len(holds_log) |->
        IF holds_log[k].id = holdId
        THEN [ holds_log[k] EXCEPT !.all_clear_at = now ]
        ELSE holds_log[k] ]

\* the update closeHold makes to the row with the given id
closedRows(holdId, notifications) ==
    [ k \in 1..Len(holds_log) |->
        IF holds_log[k].id = holdId
        THEN [ holds_log[k] EXCEPT !.all_clear_at = now,
                                   !.notifications_sent = notifications ]
        ELSE holds_log[k] ]

\* ---------------------------------------------------------------- alertDispatcher.ts
\* what the providers do with one recipient: the messaging provider accepts the
\* message and the row is logged; the messaging provider rejects it
\* (messages.create throws); it accepts it and logNotification throws
Outcomes == {"sent", "sendFails", "logFails"}

\* NotificationRecords and rows of notification_log are kept without driver_name,
\* sent_at and twilio_sid.
\* what a dispatch has done so far: the NotificationRecords pushed to results,
\* the recipients messages.create was called for, the parameters logNotification
\* was called with, the rows it inserted, and whether an error left the function
NoDispatch ==
    [ results |-> << >>, attempts |-> << >>, logCalls |-> << >>,
      rows |-> << >>, thrown |-> FALSE ]

\* faulty variant: no try/catch, a rejected message leaves the function as an error
TryDeliver_rethrow(messageType, holdId, v, outcome, acc) ==
    [ results  |-> IF outcome = "sent"
                   THEN Append(acc.results,
                               [phone_number |-> v.phone_number,
                                message_type |-> messageType, status |-> "queued"])
                   ELSE acc.results,
      attempts |-> Append(acc.attempts,
                          [device_id |-> v.device_id, to |-> v.phone_number,
                           accepted |-> outcome # "sendFails"]),
      logCalls |-> IF outcome # "sendFails"
                   THEN Append(acc.logCalls,
                               [hold_id |-> holdId, phone_number |-> v.phone_number,
                                message_type |-> messageType, status |-> "queued"])
                   ELSE acc.logCalls,
      rows     |-> IF outcome = "sent"
                   THEN Append(acc.rows,
                               [hold_id |-> holdId, phone_number |-> v.phone_number,
                                message_type |-> messageType, status |-> "queued"])
                   ELSE acc.rows,
      thrown   |-> outcome # "sent" ]

\* the try block for one vehicle with a phone number:
\* messages.create, then logNotification, then results.push; the catch logs
TryDeliver(messageType, holdId, v, outcome, acc) ==
    LET rec == [phone_number |-> v.phone_number, message_type |-> messageType,
                status |-> "queued"]
        row == [hold_id |-> holdId, phone_number |-> v.phone_number,
                message_type |-> messageType, status |-> "queued"]
        att == [device_id |-> v.device_id, to |-> v.phone_number,
                accepted |-> outcome # "sendFails"]
    IN [ results  |-> IF outcome = "sent" THEN Append(acc.results, rec)
                      ELSE acc.results,
         attempts |-> Append(acc.attempts, att),
         logCalls |-> IF outcome # "sendFails" THEN Append(acc.logCalls, row)
                      ELSE acc.logCalls,
         rows     |-> IF outcome = "sent" THEN Append(acc.rows, row) ELSE acc.rows,
         thrown   |-> FALSE ]

\* faulty variant: the try/catch is around the loop, a rejected message ends the loop
LoopNext_stop(i, n, outcome) == IF outcome = "sendFails" THEN n + 1 ELSE i + 1

\* the index the for-of loop goes to after the vehicle at index i of n
LoopNext(i, n, outcome) == i + 1

\* the for-of loop of sendHoldAlerts and of sendAllClearAlerts, from index i
RECURSIVE dispatchLoop(_, _, _, _, _, _)
dispatchLoop(messageType, holdId, vehicles, outcome, i, acc) ==
    IF i > Len(vehicles) \/ acc.thrown THEN acc
    ELSE IF vehicles[i].phone_number = Null
         THEN dispatchLoop(messageType, holdId, vehicles, outcome, i + 1, acc)
         ELSE dispatchLoop(messageType, holdId, vehicles, outcome,
                           LoopNext(i, Len(vehicles), outcome[i]),
                           TryDeliver(messageType, holdId, vehicles[i], outcome[i], acc))

sendHoldAlerts(holdId, vehicles, outcome) ==
    dispatchLoop("hold", holdId, vehicles, outcome, 1, NoDispatch)

sendAllClearAlerts(holdId, vehicles, outcome) ==
    dispatchLoop("all_clear", holdId, vehicles, outcome, 1, NoDispatch)

\* a sequence as the bag of its elements
RECURSIVE SeqToBag(_)
SeqToBag(q) ==
    IF q = << >> THEN EmptyBag ELSE SetToBag({Head(q)}) (+) SeqToBag(Tail(q))

\* ---------------------------------------------------------------- geotabResolver.ts
\* A GeotabSession is represented by the number of its sessionId; the provider
\* issues the next number at every successful Authenticate. A contact identifier
\* is represented by the number of the operator it belongs to.
DriverIds == {1, 2}

\* the errors a Get can end with: two that report an expired session, and a timeout
QueryErrors == {"InvalidUserException", "DbUnavailableException", "timeout"}

\* what the provider does with a User lookup: it returns a user with a phone
\* number, it returns no user or one without a phone number, the call throws
LookupOutcomes == {"phone", "none", "fails"}

\* faulty variant: every error of the query is taken for an expired session
sessionExpired_any(err) == TRUE

\* String(err).includes("InvalidUserException") || ...includes("DbUnavailableException")
sessionExpired(err) == err \in {"InvalidUserException", "DbUnavailableException"}

\* the requests geotabCall posts
AuthenticateCall == [method |-> "Authenticate"]

GetCall(typeName, search, session) ==
    [method |-> "Get", typeName |-> typeName, search |-> search, session |-> session]

\* the DeviceStatusInfo lists a zone query can return: device k, with or without a
\* driver, communicating or not
StatusListsUpTo(max) ==
    UNION { [ 1..n -> [ driver : DriverIds \cup {Null},
                        isDeviceCommunicating : BOOLEAN ] ] : n \in 0..max }

\* [...new Set(statuses.map(s => s.driver?.id).filter(Boolean))], in order of
\* first appearance
RECURSIVE driverIdsOf(_)
driverIdsOf(statuses) ==
    IF statuses = << >> THEN << >>
    ELSE LET before == driverIdsOf(SubSeq(statuses, 1, Len(statuses) - 1))
             d == statuses[Len(statuses)].driver
         IN IF d = Null \/ \E k \in 1..Len(before) : before[k] = d
            THEN before
            ELSE Append(before, d)

\* resolveDriverPhones: one User lookup per driver id, each in its own try/catch;
\* phoneMap gives Null for an id without an entry
RECURSIVE resolveDriverPhones(_, _, _)
resolveDriverPhones(session, driverIds, lookup) ==
    IF driverIds = << >>
    THEN [ phoneMap |-> [d \in DriverIds |-> Null], calls |-> << >> ]
    ELSE LET n == Len(driverIds)
             id == driverIds[n]
             before == resolveDriverPhones(session, SubSeq(driverIds, 1, n - 1), lookup)
         IN [ phoneMap |-> IF lookup[id] = "phone"
                           THEN [before.phoneMap EXCEPT ![id] = id]
                           ELSE before.phoneMap,
              calls |-> Append(before.calls, GetCall("User", id, session)) ]

\* faulty variant: only the vehicles with a resolved contact are returned
vehiclesOf_reachable(statuses, phoneMap) ==
    LET kept == SelectSeq([k \in 1..Len(statuses) |-> k],
                          LAMBDA k : /\ statuses[k].isDeviceCommunicating
                                     /\ statuses[k].driver # Null
                                     /\ phoneMap[statuses[k].driver] # Null)
    IN [ j \in 1..Len(kept) |->
           [ device_id |-> kept[j],
             phone_number |-> phoneMap[statuses[kept[j]].driver] ] ]

\* statuses.filter(s => s.isDeviceCommunicating).map(s => ({...})); of a
\* VehicleOnSite the device id and the phone number are kept
vehiclesOf(statuses, phoneMap) ==
    LET kept == SelectSeq([k \in 1..Len(statuses) |-> k],
                          LAMBDA k : statuses[k].isDeviceCommunicating)
    IN [ j \in 1..Len(kept) |->
           [ device_id |-> kept[j],
             phone_number |-> IF statuses[kept[j]].driver # Null
                              THEN phoneMap[statuses[kept[j]].driver]
                              ELSE Null ] ]

\* getVehiclesInZone run on its own: cached is _session at the call; env gives the
\* outcome of the k-th Authenticate (auth[k]), of the zone query and of its retry
\* (query[1], query[2]) and of the User lookups. The value has the requests posted,
\* in order, and _session at the end.
Thrown(calls, session) ==
    [ thrown |-> TRUE, vehicles |-> << >>, calls |-> calls, session |-> session ]

getVehiclesInZone(cached, statuses, env) ==
    LET session == IF cached = Null THEN 2 ELSE cached
        c1 == IF cached = Null THEN << AuthenticateCall >> ELSE << >>
        c2 == Append(c1, GetCall("DeviceStatusInfo", "zoneId", session))
        c3 == Append(c2, AuthenticateCall)
        newSession == session + 1
        c4 == Append(c3, GetCall("DeviceStatusInfo", "zoneId", newSession))
        Returns(calls, cache) ==
            LET r == resolveDriverPhones(session, driverIdsOf(statuses), env.lookup)
            IN [ thrown |-> FALSE,
                 vehicles |-> vehiclesOf(statuses, r.phoneMap),
                 calls |-> calls \o r.calls,
                 session |-> cache ]
    IN IF cached = Null /\ ~ env.auth[1] THEN Thrown(c1, Null)
       ELSE IF env.query[1] = "ok" THEN Returns(c2, session)
       ELSE IF ~ sessionExpired(env.query[1]) THEN Thrown(c2, session)
       ELSE IF ~ env.auth[Len(c1) + 1] THEN Thrown(c3, Null)
       ELSE IF env.query[2] = "ok" THEN Returns(c4, newSession)
       ELSE Thrown(c4, newSession)

\* ---------------------------------------------------------------- weatherPoller.ts
\* The provider's figures are in tenths of their unit: storm energies in tenths of
\* a J/kg, wind speeds in tenths of a m/s, temperatures in tenths of a degree.
\* WMO weather codes that indicate thunderstorm activity
THUNDERSTORM_CODES == {95, 96, 99}

\* Math.round(n / d) for d > 0: the nearest integer, a half going upwards
round(n, d) == (2 * n + d) \div (2 * d)

\* mps * 2.23694, in millionths of a mile per hour
mpsToMph(mps) == mps * 223694

\* faulty variant: the second bucket starts again at 0
capeToProbability_gap(cape) ==
    IF cape < 1000 THEN round(cape, 100)
    ELSE IF cape < 5000 THEN round(cape - 1000, 200)
    ELSE IF cape < 15000 THEN round(30 * 1000 + 3 * (cape - 5000), 1000)
    ELSE LET p == round(60 * 2000 + 3 * (cape - 15000), 2000)
         IN IF p < 90 THEN p ELSE 90

\* faulty variant: the last bucket is not capped
capeToProbability_uncapped(cape) ==
    IF cape < 1000 THEN round(cape, 100)
    ELSE IF cape < 5000 THEN round(10 * 200 + (cape - 1000), 200)
    ELSE IF cape < 15000 THEN round(30 * 1000 + 3 * (cape - 5000), 1000)
    ELSE round(60 * 2000 + 3 * (cape - 15000), 2000)

\* with c = cape / 10 the energy in J/kg:
\*   (c / 100) * 10              = cape / 100
\*   10 + ((c - 100) / 400) * 20  = (10 * 200 + (cape - 1000)) / 200
\*   30 + ((c - 500) / 1000) * 30 = (30 * 1000 + 3 * (cape - 5000)) / 1000
\*   60 + ((c - 1500) / 2000) * 30 = (60 * 2000 + 3 * (cape - 15000)) / 2000
capeToProbability(cape) ==
    IF cape < 1000 THEN round(cape, 100)
    ELSE IF cape < 5000 THEN round(10 * 200 + (cape - 1000), 200)
    ELSE IF cape < 15000 THEN round(30 * 1000 + 3 * (cape - 5000), 1000)
    ELSE LET p == round(60 * 2000 + 3 * (cape - 15000), 2000)
         IN IF p < 90 THEN p ELSE 90

\* faulty variant: a thunderstorm code always sets the probability to 50
lightningPct_always(lightning_potential, weather_code) ==
    LET cape == IF lightning_potential = Null THEN 0 ELSE lightning_potential
        derived == capeToProbability(cape)
    IN IF weather_code \in THUNDERSTORM_CODES THEN 50 ELSE derived

\* lightningPct of fetchWeather: the probability of the energy figure, or 50 for
\* an active thunderstorm the energy figure rates below 40
lightningPct(lightning_potential, weather_code) ==
    LET cape == IF lightning_potential = Null THEN 0 ELSE lightning_potential
        derived == capeToProbability(cape)
    IN IF derived < 40 /\ weather_code \in THUNDERSTORM_CODES THEN 50 ELSE derived

\* fetchWeather on the response of the provider: data is NULL when axios.get
\* throws. Math.round(x * 10) / 10 is taken in tenths and divided by 10; timestamp
\* and raw are left out of the snapshot.
fetchWeather(data) ==
    IF data = NULL THEN [ thrown |-> TRUE ]
    ELSE LET c == data.current
         IN [ thrown |-> FALSE,
              snapshot |->
                [ wind_speed_mph |-> round(mpsToMph(c.wind_speed_10m), 100000) \div 10,
                  wind_gust_mph |-> round(mpsToMph(c.wind_gusts_10m), 100000) \div 10,
                  apparent_temp_c |-> round(c.apparent_temperature, 1) \div 10,
                  lightning_probability_pct |->
                      lightningPct(data.lightning_potential, c.weather_code),
                  weather_code |-> c.weather_code ] ]

\* ---------------------------------------------------------------- index.ts
\* the locals of processSite, and what it has done so far: attempted, the
\* recipients its last dispatch called messages.create for; wrote, whether it has
\* called createHold, closeHold, messages.create or logNotification; err, the call
\* whose error left processSite; holdReadFailed, whether getActiveHold threw
LocalInit ==
    [ weather |-> NULL, activeHold |-> NULL, session |-> Null, vehicles |-> << >>,
      hold |-> NULL, notifications |-> << >>, attempted |-> << >>,
      wrote |-> FALSE, err |-> "none",
      holdReadFailed |-> FALSE ]

\* faulty variant: a breach of another rule than the open hold's opens a new hold
AfterFetch_escalate(weather, activeHold) ==
    IF weather = NULL THEN "done"
    ELSE IF activeHold # NULL
            /\ ~ (evaluateThresholds(weather) # NULL
                  /\ evaluateThresholds(weather).rule # activeHold.trigger_rule)
         THEN IF shouldClearHold(activeHold.trigger_rule, weather,
                                 activeHold.triggered_at, activeHold.hold_duration_mins)
              THEN "allclear"
              ELSE "done"
         ELSE IF evaluateThresholds(weather) # NULL THEN "resolve"
         ELSE "done"

\* faulty variant: a timed hold is cleared on elapsed time before the weather is looked at
AfterFetch_timedFirst(weather, activeHold) ==
    IF activeHold # NULL /\ activeHold.hold_duration_mins # Null
       /\ now - activeHold.triggered_at >= activeHold.hold_duration_mins * 60 * 1000
    THEN "allclear"
    ELSE IF weather = NULL THEN "done"
    ELSE IF activeHold # NULL
         THEN IF shouldClearHold(activeHold.trigger_rule, weather,
                                 activeHold.triggered_at, activeHold.hold_duration_mins)
              THEN "allclear"
              ELSE "done"
         ELSE IF evaluateThresholds(weather) # NULL THEN "resolve"
         ELSE "done"

\* faulty variant: an open hold is cleared only when the snapshot breaches no rule
AfterFetch_whenCalm(weather, activeHold) ==
    IF weather = NULL THEN "done"
    ELSE IF activeHold # NULL
         THEN IF shouldClearHold(activeHold.trigger_rule, weather,
                                 activeHold.triggered_at, activeHold.hold_duration_mins)
                 /\ evaluateThresholds(weather) = NULL
              THEN "allclear"
              ELSE "done"
         ELSE IF evaluateThresholds(weather) # NULL THEN "resolve"
         ELSE "done"

\* processSite between the Promise.all and its next await: where it goes
AfterFetch(weather, activeHold) ==
    IF weather = NULL THEN "done"
    ELSE IF activeHold # NULL
         THEN IF shouldClearHold(activeHold.trigger_rule, weather,
                                 activeHold.triggered_at, activeHold.hold_duration_mins)
              THEN "allclear"
              ELSE "done"
         ELSE IF evaluateThresholds(weather) # NULL THEN "resolve"
         ELSE "done"

\* faulty variant: a fail-fast join without the per-site catch; the rejection leaves poll()
\* and ends the process with the other pipelines unfinished
OnReject_failFast(p) ==
    [q \in Pipelines |->
        IF q = p THEN "failed"
        ELSE IF pc[q] \in {"idle", "done", "failed"} \/ pollOf(q) # pollOf(p) THEN pc[q]
        ELSE "aborted"]

\* processSite(site).catch(err => console.error(...)) inside Promise.allSettled
OnReject(p) == [pc EXCEPT ![p] = "failed"]

Settled == {"done", "failed"}

\* the locals of processSite once it has returned or thrown: the vehicle list, the
\* notification list and the outcome of the hold read are gone
Returned(l) ==
    [l EXCEPT !.vehicles = << >>, !.notifications = << >>, !.attempted = << >>,
              !.holdReadFailed = FALSE, !.session = Null]

\* pipeline p goes on to position to ("failed": it throws) with locals l
Goto(p, to, l) ==
    /\ pc' = IF to = "failed" THEN OnReject(p) ELSE [pc EXCEPT ![p] = to]
    /\ local' = [local EXCEPT ![p] = IF to \in Settled THEN Returned(l) ELSE l]

\* ---------------------------------------------------------------- the polling cycle
Init ==
    /\ demoMode \in BOOLEAN
    /\ _session \in {Null, 1}
    /\ sites = {"A"}
    /\ now = 0
    /\ holds_log = << >>
    /\ notification_log = EmptyBag
    /\ cycle = 0
    /\ timer = "unset"
    /\ overrun = FALSE
    /\ pollPc = [k \in Polls |-> "idle"]
    /\ pc = [p \in Pipelines |-> "idle"]
    /\ local = [p \in Pipelines |-> LocalInit]
    /\ probe = NULL
    /\ result = NULL

\* time passes
Tick ==
    /\ now < MaxTicks * TickMs
    /\ now' = now + TickMs
    /\ UNCHANGED <<demoMode, _session, sites, holds_log, notification_log,
                   cycle, timer, overrun, pollPc, pc, local, probe, result>>

\* the invocations of poll() that have not returned
running == { k \in Polls : pollPc[k] = "running" }

\* poll() is called: by main, which awaits it before it sets the timer, and then by
\* the timer every POLL_INTERVAL_MS, whether the invocation before has returned or
\* not: the timer calls poll() next to an invocation that has not returned when
\* that one takes a poll interval or longer. The invocation is number k.
Invoked(k) ==
    /\ cycle < MaxCycles
    /\ pollPc[k] = "idle"
    /\ \A j \in Polls : j < k => pollPc[j] = "running"
    /\ running # {} => timer = "set" /\ overrun
    /\ cycle' = cycle + 1

\* poll(): getActiveSites succeeds and one processSite per site is started
PollStart ==
    \E k \in Polls :
       /\ Invoked(k)
       /\ pollPc' = [pollPc EXCEPT ![k] = "running"]
       /\ pc' = [p \in Pipelines |->
                   IF pollOf(p) # k THEN pc[p]
                   ELSE IF siteOf(p) \in sites THEN "start" ELSE "idle"]
       /\ local' = [p \in Pipelines |-> IF pollOf(p) = k THEN LocalInit ELSE local[p]]
       /\ UNCHANGED <<demoMode, _session, sites, now, holds_log, notification_log,
                      timer, overrun, probe, result>>

\* poll(): getActiveSites throws, the error is logged and poll returns; when main
\* awaited it, main sets the timer
PollSitesFail ==
    \E k \in Polls :
       /\ Invoked(k)
       /\ timer' = "set"
       /\ pc' = [p \in Pipelines |-> IF pollOf(p) = k THEN "idle" ELSE pc[p]]
       /\ local' = [p \in Pipelines |-> IF pollOf(p) = k THEN LocalInit ELSE local[p]]
       /\ UNCHANGED <<demoMode, _session, sites, now, holds_log, notification_log,
                      overrun, pollPc, probe, result>>

\* processSite: Promise.all([fetchWeather.catch(null), getActiveHold.catch(null)]),
\* then the synchronous code up to the next await
FetchAndEvaluate(p) ==
    /\ pc[p] = "start"
    /\ \E weather \in WeatherSamples \cup {NULL}, holdReadOk \in BOOLEAN :
         \E activeHold \in (IF holdReadOk THEN getActiveHold(siteOf(p)) ELSE {NULL}) :
            Goto(p, AfterFetch(weather, activeHold),
                 [local[p] EXCEPT !.weather = weather, !.activeHold = activeHold,
                                  !.holdReadFailed = ~ holdReadOk])
    /\ UNCHANGED <<demoMode, _session, sites, now, holds_log, notification_log,
                   cycle, timer, overrun, pollPc, probe, result>>

\* the sessions the pipelines hold or the cache holds, and the session the provider
\* issues at the next successful Authenticate
sessionsInUse == {_session} \cup { local[q].session : q \in Pipelines }

issuedSession ==
    CHOOSE i \in 1..(Cardinality(Pipelines) + 2) :
        i \notin sessionsInUse /\ \A j \in 1..(i - 1) : j \in sessionsInUse

\* faulty variant: the cached session is kept when it is reported as expired
clearedSession_kept == _session

\* _session = null, in the catch block of the zone query
clearedSession == Null

\* processSite: getVehiclesInZone(zoneId) is called; getSession returns the cached
\* session and the zone query is posted, or calls authenticate
ResolveVehicles(p) ==
    /\ pc[p] = "resolve"
    /\ IF _session = Null
       THEN Goto(p, "authenticate", local[p])
       ELSE Goto(p, "query", [local[p] EXCEPT !.session = _session])
    /\ UNCHANGED <<demoMode, _session, sites, now, holds_log, notification_log,
                   cycle, timer, overrun, pollPc, probe, result>>

\* authenticate, called by getSession, gets its response: _session is set and the
\* zone query is posted, or the error leaves getVehiclesInZone
Authenticate(p) ==
    /\ pc[p] = "authenticate"
    /\ \/ /\ _session' = issuedSession
          /\ Goto(p, "query", [local[p] EXCEPT !.session = issuedSession])
       \/ /\ Goto(p, "failed", [local[p] EXCEPT !.err = "authenticate"])
          /\ UNCHANGED _session
    /\ UNCHANGED <<demoMode, sites, now, holds_log, notification_log,
                   cycle, timer, overrun, pollPc, probe, result>>

\* the zone query gets its response: the statuses (the operators' contacts are then
\* looked up and the vehicles returned), a session-expired error (_session = null
\* and authenticate is called) or another error (rethrown)
ZoneQuery(p) ==
    /\ pc[p] = "query"
    /\ \/ /\ \E vehicles \in VehicleLists :
               Goto(p, "create", [local[p] EXCEPT !.vehicles = vehicles,
                                                  !.session = Null])
          /\ UNCHANGED _session
       \/ /\ _session' = clearedSession
          /\ Goto(p, "reauthenticate", local[p])
       \/ /\ Goto(p, "failed", [local[p] EXCEPT !.err = "getVehiclesInZone"])
          /\ UNCHANGED _session
    /\ UNCHANGED <<demoMode, sites, now, holds_log, notification_log,
                   cycle, timer, overrun, pollPc, probe, result>>

\* authenticate, called in the catch block, gets its response: _session is set and
\* the query is posted again, or the error leaves getVehiclesInZone
Reauthenticate(p) ==
    /\ pc[p] = "reauthenticate"
    /\ \/ /\ _session' = issuedSession
          /\ Goto(p, "retry", local[p])
       \/ /\ Goto(p, "failed", [local[p] EXCEPT !.err = "authenticate"])
          /\ UNCHANGED _session
    /\ UNCHANGED <<demoMode, sites, now, holds_log, notification_log,
                   cycle, timer, overrun, pollPc, probe, result>>

\* the retried zone query gets its response: the statuses, or an error that leaves
\* getVehiclesInZone
RetryQuery(p) ==
    /\ pc[p] = "retry"
    /\ \/ \E vehicles \in VehicleLists :
            Goto(p, "create", [local[p] EXCEPT !.vehicles = vehicles,
                                               !.session = Null])
       \/ Goto(p, "failed", [local[p] EXCEPT !.err = "getVehiclesInZone"])
    /\ UNCHANGED <<demoMode, _session, sites, now, holds_log, notification_log,
                   cycle, timer, overrun, pollPc, probe, result>>

\* processSite: await createHold({...})
CreateHold(p) ==
    /\ pc[p] = "create"
    /\ \/ /\ Goto(p, "failed", [local[p] EXCEPT !.err = "createHold", !.wrote = TRUE])
          /\ UNCHANGED holds_log
       \/ /\ Len(holds_log) < MaxHolds
          /\ LET breach == evaluateThresholds(local[p].weather)
                 hold == newHoldRow(siteOf(p), breach.rule, local[p].weather,
                                    local[p].vehicles, breach.hold_duration_mins)
             IN /\ holds_log' = Append(holds_log, hold)
                /\ Goto(p, "alert", [local[p] EXCEPT !.hold = hold, !.wrote = TRUE])
    /\ UNCHANGED <<demoMode, _session, sites, now, notification_log,
                   cycle, timer, overrun, pollPc, probe, result>>

\* what processSite does with the outcome d of a dispatch
AfterDispatch(p, d, afterPc) ==
    /\ notification_log' = notification_log (+) SeqToBag(d.rows)
    /\ Goto(p, IF d.thrown THEN "failed" ELSE afterPc,
            [local[p] EXCEPT !.notifications = d.results,
                             !.attempted = d.attempts,
                             !.wrote = @ \/ d.attempts # << >>,
                             !.err = IF d.thrown THEN "dispatch" ELSE @])

\* processSite: await sendHoldAlerts({holdId: hold.id, ..., vehicles})
SendHoldAlerts(p) ==
    /\ pc[p] = "alert"
    /\ \E outcome \in [1..Len(local[p].vehicles) -> Outcomes] :
         AfterDispatch(p, sendHoldAlerts(local[p].hold.id, local[p].vehicles, outcome),
                       "done")
    /\ UNCHANGED <<demoMode, _session, sites, now, holds_log, cycle, timer, overrun, pollPc, probe, result>>

\* processSite: await sendAllClearAlerts({holdId: activeHold.id, ..., vehicles})
SendAllClearAlerts(p) ==
    /\ pc[p] = "allclear"
    /\ \E outcome \in [1..Len(local[p].activeHold.vehicles_on_site) -> Outcomes] :
         AfterDispatch(p, sendAllClearAlerts(local[p].activeHold.id,
                                             local[p].activeHold.vehicles_on_site,
                                             outcome),
                       "close")
    /\ UNCHANGED <<demoMode, _session, sites, now, holds_log, cycle, timer, overrun, pollPc, probe, result>>

\* faulty variant: after closeHold a snapshot that still breaches opens a new hold
CloseHold_reopen(p) ==
    /\ pc[p] = "close"
    /\ \/ /\ holds_log' = closedRows(local[p].activeHold.id, local[p].notifications)
          /\ Goto(p, IF evaluateThresholds(local[p].weather) # NULL
                      THEN "resolve" ELSE "done",
                  [local[p] EXCEPT !.wrote = TRUE])
       \/ /\ Goto(p, "failed", [local[p] EXCEPT !.err = "closeHold", !.wrote = TRUE])
          /\ UNCHANGED holds_log
    /\ UNCHANGED <<demoMode, _session, sites, now, notification_log,
                   cycle, timer, overrun, pollPc, probe, result>>

\* processSite: await closeHold(activeHold.id, notifications)
CloseHold(p) ==
    /\ pc[p] = "close"
    /\ \/ /\ holds_log' = closedRows(local[p].activeHold.id, local[p].notifications)
          /\ Goto(p, "done", [local[p] EXCEPT !.wrote = TRUE])
       \/ /\ Goto(p, "failed", [local[p] EXCEPT !.err = "closeHold", !.wrote = TRUE])
          /\ UNCHANGED holds_log
    /\ UNCHANGED <<demoMode, _session, sites, now, notification_log,
                   cycle, timer, overrun, pollPc, probe, result>>

\* poll(): Promise.allSettled resolves once every processSite has settled and
\* poll returns; when main awaited it, main sets the timer
PollComplete(k) ==
    /\ pollPc[k] = "running"
    /\ \A s \in sites : pc[<<s, k>>] \in Settled
    /\ pollPc' = [pollPc EXCEPT ![k] = "idle"]
    /\ timer' = "set"
    /\ UNCHANGED <<demoMode, _session, sites, now, holds_log, notification_log,
                   cycle, overrun, pc, local, probe, result>>

Next ==
    \/ Tick
    \/ PollStart
    \/ PollSitesFail
    \/ \E p \in Pipelines : FetchAndEvaluate(p)
    \/ \E p \in Pipelines : ResolveVehicles(p)
    \/ \E p \in Pipelines : Authenticate(p)
    \/ \E p \in Pipelines : ZoneQuery(p)
    \/ \E p \in Pipelines : Reauthenticate(p)
    \/ \E p \in Pipelines : RetryQuery(p)
    \/ \E p \in Pipelines : CreateHold(p)
    \/ \E p \in Pipelines : SendHoldAlerts(p)
    \/ \E p \in Pipelines : SendAllClearAlerts(p)
    \/ \E p \in Pipelines : CloseHold(p)
    \/ \E k \in Polls : PollComplete(k)

Spec == Init /\ [][Next]_vars

\* ---------------------------------------------------------------- one cycle over two sites
\* a row an earlier cycle inserted at time 0 for a site whose snapshot breached
earlierHold(id, siteId, weather) ==
    [ id |-> id,
      site_id |-> siteId,
      triggered_at |-> 0,
      trigger_rule |-> evaluateThresholds(weather).rule,
      weather_snapshot |-> weather,
      vehicles_on_site |-> << [device_id |-> 1, phone_number |-> 1] >>,
      hold_duration_mins |-> evaluateThresholds(weather).hold_duration_mins,
      all_clear_at |-> Null,
      issued_by |-> "auto",
      notifications_sent |-> << >> ]

lightningSample ==
    [lightning_probability_pct |-> 50, wind_speed_mph |-> 0, wind_gust_mph |-> 0,
     apparent_temp_c |-> 20]

windSample ==
    [lightning_probability_pct |-> 0, wind_speed_mph |-> 30, wind_gust_mph |-> 42,
     apparent_temp_c |-> 20]

\* the table holds_log as earlier cycles can have left it
EarlierHolds ==
    { << >>,
      << earlierHold(1, "A", lightningSample) >>,
      << earlierHold(1, "B", windSample) >>,
      << earlierHold(1, "A", lightningSample), earlierHold(2, "B", windSample) >> }

\* the last cycle of a run, with both sites active, under the production preset
\* (the snapshots of the polling model breach the same rules under both presets)
InitCycle ==
    /\ demoMode = FALSE
    /\ _session \in {Null, 1}
    /\ sites = Sites
    /\ now = 0
    /\ holds_log \in EarlierHolds
    /\ notification_log = EmptyBag
    /\ cycle = MaxCycles - 1
    /\ timer = "set"
    /\ overrun = FALSE
    /\ pollPc = [k \in Polls |-> "idle"]
    /\ pc = [p \in Pipelines |-> "idle"]
    /\ local = [p \in Pipelines |-> LocalInit]
    /\ probe = NULL
    /\ result = NULL

SpecCycle == InitCycle /\ [][Next]_vars

\* ---------------------------------------------------------------- polls that overrun
\* one site, the timer set, no hold or a wind hold open, and a persistence store or
\* message provider (no call to them has a timeout) that can keep a poll() waiting
\* for a poll interval or longer
InitTimer ==
    /\ demoMode = FALSE
    /\ _session \in {Null, 1}
    /\ sites = {"A"}
    /\ now = 0
    /\ holds_log \in { << >>, << earlierHold(1, "A", windSample) >> }
    /\ notification_log = EmptyBag
    /\ cycle = 0
    /\ timer = "set"
    /\ overrun = TRUE
    /\ pollPc = [k \in Polls |-> "idle"]
    /\ pc = [p \in Pipelines |-> "idle"]
    /\ local = [p \in Pipelines |-> LocalInit]
    /\ probe = NULL
    /\ result = NULL

SpecTimer == InitTimer /\ [][Next]_vars

\* ---------------------------------------------------------------- polls over an open hold
\* one site, the timer set, no hold or a wind hold open, and polls that return
\* within the poll interval
InitHeld ==
    /\ demoMode = FALSE
    /\ _session \in {Null, 1}
    /\ sites = {"A"}
    /\ now = 0
    /\ holds_log \in { << >>, << earlierHold(1, "A", windSample) >> }
    /\ notification_log = EmptyBag
    /\ cycle = 0
    /\ timer = "set"
    /\ overrun = FALSE
    /\ pollPc = [k \in Polls |-> "idle"]
    /\ pc = [p \in Pipelines |-> "idle"]
    /\ local = [p \in Pipelines |-> LocalInit]
    /\ probe = NULL
    /\ result = NULL

SpecHeld == InitHeld /\ [][Next]_vars

\* ---------------------------------------------------------------- the functions on their own
\* sustained wind speeds below and above every wind threshold
SustainedSamples == {0, 45}

WeatherGrid ==
    [ lightning_probability_pct : {0, 9, 10, 39, 40, 41},
      wind_speed_mph : SustainedSamples,
      wind_gust_mph : {2, 3, 4, 5, 29, 30, 39, 40, 41},
      apparent_temp_c : {24, 25, 37, 38} ]

\* elapsed times around one minute and around thirty minutes
ElapsedSamples ==
    {0, 60000 - 1, 60000, 29 * 60000, 30 * 60000 - 1, 30 * 60000,
     30 * 60000 + 1, 31 * 60000}

\* the snapshot of the worked example: gust 42 mph, lightning 5 %, heat 20 C
ExampleSnapshot ==
    [ lightning_probability_pct |-> 5, wind_speed_mph |-> 0, wind_gust_mph |-> 42,
      apparent_temp_c |-> 20 ]

\* storm energies capeToProbability is evaluated on, in tenths of a J/kg:
\* every tenth from -200 J/kg to 4000 J/kg
EnergyRange == (0 - 2000)..40000

\* storm energies of the provider's responses: the ends of the buckets, the
\* energies around a probability of 40, the cap, and a missing figure
EnergySamples ==
    {Null, 0, 5, 999, 1000, 4999, 5000, 8166, 8167, 8333, 14999, 15000, 34999,
     35000, 40000}

\* WMO weather codes
WeatherCodes == 0..99

\* responses of the provider: wind speeds of 0 and 13.4 m/s, gusts of 0 and
\* 17.9 m/s (30.0 and 40.0 mph), apparent temperatures of 20.0 and 38.0 C
Responses ==
    {NULL}
    \cup
    [ current : [ wind_speed_10m : {0, 134}, wind_gusts_10m : {0, 179},
                  apparent_temperature : {200, 380}, weather_code : WeatherCodes ],
      lightning_potential : EnergySamples ]

Probes ==
    [ op : {"evaluateThresholds"}, weather : WeatherGrid \cup {ExampleSnapshot} ]
    \cup
    [ op : {"capeToProbability"}, cape : EnergyRange ]
    \cup
    [ op : {"fetchWeather"}, data : Responses ]
    \cup
    [ op : {"shouldClearHold"}, rule : OshaRule, weather : WeatherGrid,
      triggeredAt : {0, 60000}, holdDurationMins : {Null, 1, 30} ]
    \cup
    UNION { [ op : {"sendHoldAlerts", "sendAllClearAlerts"}, holdId : {1},
              vehicles : {vl}, outcome : [1..Len(vl) -> Outcomes] ] :
            vl \in VehicleListsUpTo(MaxFleet) }
    \cup
    [ op : {"getVehiclesInZone"}, cached : {Null, 1},
      statuses : StatusListsUpTo(MaxDevices),
      env : [ auth : [1..2 -> BOOLEAN],
              query : [1..2 -> QueryErrors \cup {"ok"}],
              lookup : [DriverIds -> LookupOutcomes] ] ]

InitFn ==
    /\ _session = Null
    /\ sites = {}
    /\ probe \in Probes
    /\ demoMode \in IF probe.op \in {"evaluateThresholds", "shouldClearHold",
                                     "fetchWeather"}
                    THEN BOOLEAN
                    ELSE {FALSE}
    /\ now \in IF probe.op = "shouldClearHold"
               THEN { probe.triggeredAt + e : e \in ElapsedSamples }
               ELSE {0}
    /\ holds_log = << >>
    /\ notification_log = EmptyBag
    /\ cycle = 0
    /\ timer = "unset"
    /\ overrun = FALSE
    /\ pollPc = [k \in Polls |-> "idle"]
    /\ pc = [p \in Pipelines |-> "idle"]
    /\ local = [p \in Pipelines |-> LocalInit]
    /\ result = NULL

ApplyEvaluateThresholds ==
    /\ probe.op = "evaluateThresholds"
    /\ result = NULL
    /\ result' = [returned |-> evaluateThresholds(probe.weather)]
    /\ UNCHANGED <<demoMode, _session, sites, now, holds_log, notification_log,
                   cycle, timer, overrun, pollPc, pc, local, probe>>

ApplyShouldClearHold ==
    /\ probe.op = "shouldClearHold"
    /\ result = NULL
    /\ result' = [returned |-> shouldClearHold(probe.rule, probe.weather,
                                               probe.triggeredAt,
                                               probe.holdDurationMins)]
    /\ UNCHANGED <<demoMode, _session, sites, now, holds_log, notification_log,
                   cycle, timer, overrun, pollPc, pc, local, probe>>

ApplySendHoldAlerts ==
    /\ probe.op = "sendHoldAlerts"
    /\ result = NULL
    /\ result' = [returned |-> sendHoldAlerts(probe.holdId, probe.vehicles,
                                              probe.outcome)]
    /\ UNCHANGED <<demoMode, _session, sites, now, holds_log, notification_log,
                   cycle, timer, overrun, pollPc, pc, local, probe>>

ApplySendAllClearAlerts ==
    /\ probe.op = "sendAllClearAlerts"
    /\ result = NULL
    /\ result' = [returned |-> sendAllClearAlerts(probe.holdId, probe.vehicles,
                                                  probe.outcome)]
    /\ UNCHANGED <<demoMode, _session, sites, now, holds_log, notification_log,
                   cycle, timer, overrun, pollPc, pc, local, probe>>

ApplyGetVehiclesInZone ==
    /\ probe.op = "getVehiclesInZone"
    /\ result = NULL
    /\ result' = [returned |-> getVehiclesInZone(probe.cached, probe.statuses,
                                                 probe.env)]
    /\ UNCHANGED <<demoMode, _session, sites, now, holds_log, notification_log,
                   cycle, timer, overrun, pollPc, pc, local, probe>>

ApplyCapeToProbability ==
    /\ probe.op = "capeToProbability"
    /\ result = NULL
    /\ result' = [returned |-> capeToProbability(probe.cape)]
    /\ UNCHANGED <<demoMode, _session, sites, now, holds_log, notification_log,
                   cycle, timer, overrun, pollPc, pc, local, probe>>

ApplyFetchWeather ==
    /\ probe.op = "fetchWeather"
    /\ result = NULL
    /\ result' = [returned |-> fetchWeather(probe.data)]
    /\ UNCHANGED <<demoMode, _session, sites, now, holds_log, notification_log,
                   cycle, timer, overrun, pollPc, pc, local, probe>>

NextFn ==
    \/ ApplyCapeToProbability
    \/ ApplyFetchWeather
    \/ ApplyEvaluateThresholds
    \/ ApplyShouldClearHold
    \/ ApplySendHoldAlerts
    \/ ApplySendAllClearAlerts
    \/ ApplyGetVehiclesInZone

SpecFn == InitFn /\ [][NextFn]_vars

\* ---------------------------------------------------------------- properties
\* the step of processSite(s) that is enabled at its position
PipelineStep(p) ==
    \/ FetchAndEvaluate(p)
    \/ ResolveVehicles(p)
    \/ Authenticate(p)
    \/ ZoneQuery(p)
    \/ Reauthenticate(p)
    \/ RetryQuery(p)
    \/ CreateHold(p)
    \/ SendHoldAlerts(p)
    \/ SendAllClearAlerts(p)
    \/ CloseHold(p)

\* the breach of the snapshot of pipeline l is of another rule than the open hold
\* the pipeline observed
OtherBreach(l) ==
    /\ l.activeHold # NULL
    /\ l.weather # NULL
    /\ evaluateThresholds(l.weather) # NULL
    /\ evaluateThresholds(l.weather).rule # l.activeHold.trigger_rule

\* the rows of holds_log of a site, without their clearing fields
triggerRows(log, siteId) ==
    { [id |-> log[k].id, trigger_rule |-> log[k].trigger_rule,
       hold_duration_mins |-> log[k].hold_duration_mins,
       triggered_at |-> log[k].triggered_at] :
      k \in { j \in 1..Len(log) : log[j].site_id = siteId } }

\* C1: in every reachable state each site has at most one hold whose clearing
\* timestamp is null, whatever calls failed in the cycles so far.
C1_AtMostOneOpenHold ==
    \A s \in Sites : Cardinality(openHolds(s)) <= 1

\* C2: when processSite observes an open hold and the snapshot breaches another
\* rule, it clears the hold exactly when shouldClearHold says so for the hold's own
\* rule and duration, no step of the rest of its run adds a row for the site, and
\* the rule, duration and trigger time of a row never change.
C2_NoRuleChange ==
    [][ \A p \in Pipelines :
          /\ (pc[p] = "start" /\ pc'[p] # "start" /\ OtherBreach(local'[p]))
               => /\ pc'[p] \in {"allclear", "done"}
                  /\ (pc'[p] = "allclear")
                       <=> shouldClearHold(local'[p].activeHold.trigger_rule,
                                           local'[p].weather,
                                           local'[p].activeHold.triggered_at,
                                           local'[p].activeHold.hold_duration_mins)
          /\ (pc[p] # "start" /\ pc'[p] # pc[p] /\ OtherBreach(local[p]))
               => triggerRows(holds_log', siteOf(p)) = triggerRows(holds_log, siteOf(p))
          /\ triggerRows(holds_log, siteOf(p)) \subseteq triggerRows(holds_log', siteOf(p))
      ]_vars

\* C2 witness: an open lightning hold was observed, the snapshot breaches a wind
\* rule, and the pipeline has finished with the hold still open.
C2_Witness ==
    \E p \in Pipelines :
        /\ pc[p] = "done"
        /\ OtherBreach(local[p])
        /\ local[p].activeHold.trigger_rule = "LIGHTNING_30_30"
        /\ evaluateThresholds(local[p].weather).rule = "HIGH_WIND_GENERAL"
        /\ local[p].activeHold \in openHolds(siteOf(p))

MinuteMs == 60 * 1000

\* C3: a hold with a fixed duration of D minutes triggered at T clears exactly when
\* now - T >= D minutes, for every snapshot.
C3_FixedDuration ==
    (probe # NULL /\ probe.op = "shouldClearHold" /\ result # NULL
       /\ probe.holdDurationMins # Null)
    => (result.returned = TRUE
          <=> now - probe.triggeredAt >= probe.holdDurationMins * MinuteMs)

\* C3 witness: a 30-minute hold at T + 30 min exactly, lightning still above the
\* threshold, has been found to clear.
C3_Witness ==
    /\ probe # NULL /\ probe.op = "shouldClearHold" /\ result # NULL
    /\ probe.holdDurationMins = 30
    /\ probe.rule = "LIGHTNING_30_30"
    /\ now - probe.triggeredAt = 30 * MinuteMs
    /\ probe.weather.lightning_probability_pct >= getThresholds.lightningPct
    /\ result.returned = TRUE

\* the measurement a rule looks at, and the rule's threshold in the active preset
measured(rule, weather) ==
    CASE rule = "LIGHTNING_30_30" -> weather.lightning_probability_pct
      [] rule = "HIGH_WIND_GENERAL" -> weather.wind_gust_mph
      [] rule = "HIGH_WIND_MATERIAL_HANDLING" -> weather.wind_gust_mph
      [] rule = "EXTREME_HEAT" -> weather.apparent_temp_c

thresholdOf(rule) ==
    CASE rule = "LIGHTNING_30_30" -> getThresholds.lightningPct
      [] rule = "HIGH_WIND_GENERAL" -> getThresholds.highWindGeneralMph
      [] rule = "HIGH_WIND_MATERIAL_HANDLING" -> getThresholds.highWindMaterialMph
      [] rule = "EXTREME_HEAT" -> getThresholds.extremeHeatC

\* C4: a condition-based hold (duration null) of a wind or heat rule clears exactly
\* when the rule's current measurement is strictly below the rule's threshold in the
\* active preset, whatever the trigger time and the current time.
C4_ConditionBased ==
    (probe # NULL /\ probe.op = "shouldClearHold" /\ result # NULL
       /\ probe.holdDurationMins = Null
       /\ probe.rule \in {"HIGH_WIND_GENERAL", "HIGH_WIND_MATERIAL_HANDLING",
                          "EXTREME_HEAT"})
    => (result.returned = TRUE
          <=> measured(probe.rule, probe.weather) < thresholdOf(probe.rule))

\* C4 witness: a wind-general hold 31 minutes old with the gust exactly at the
\* threshold has been found not to clear.
C4_Witness ==
    /\ probe # NULL /\ probe.op = "shouldClearHold" /\ result # NULL
    /\ probe.holdDurationMins = Null
    /\ probe.rule = "HIGH_WIND_GENERAL"
    /\ probe.weather.wind_gust_mph = getThresholds.highWindGeneralMph
    /\ now - probe.triggeredAt = 31 * MinuteMs
    /\ result.returned = FALSE

\* the rules in the order of the claim, and the rules whose condition a snapshot meets
ruleOrder ==
    << "LIGHTNING_30_30", "HIGH_WIND_GENERAL", "HIGH_WIND_MATERIAL_HANDLING",
       "EXTREME_HEAT" >>

metRules(weather) ==
    { k \in 1..4 : measured(ruleOrder[k], weather) >= thresholdOf(ruleOrder[k]) }

\* C5: evaluateThresholds returns null when no rule condition is met and otherwise
\* one breach, that of the met rule that is earliest in the order lightning,
\* wind-general, wind-material-handling, extreme-heat.
C5_HighestPriority ==
    (probe # NULL /\ probe.op = "evaluateThresholds" /\ result # NULL)
    => IF metRules(probe.weather) = {}
       THEN result.returned = NULL
       ELSE /\ DOMAIN result.returned
                 = {"rule", "value", "threshold", "hold_duration_mins"}
            /\ \E k \in metRules(probe.weather) :
                 /\ \A j \in metRules(probe.weather) : k <= j
                 /\ result.returned.rule = ruleOrder[k]

\* C5 witness: the lightning, wind-material-handling and heat conditions are met
\* together but not wind-general, and the lightning breach has been returned.
C5_Witness ==
    /\ probe # NULL /\ probe.op = "evaluateThresholds" /\ result # NULL
    /\ metRules(probe.weather) = {1, 3, 4}
    /\ result.returned.rule = "LIGHTNING_30_30"

\* C6: when the weather fetch of a site fails, the pipeline returns in that step
\* without an error and without a write: the tables are as they were and the other
\* pipelines are where they were; and a pipeline past its fetch without a snapshot
\* has returned normally, having written nothing.
C6_WeatherFailureSkips ==
    /\ [] ( \A p \in Pipelines :
              (pc[p] \notin {"idle", "start"} /\ local[p].weather = NULL)
              => (pc[p] = "done" /\ ~ local[p].wrote /\ local[p].err = "none") )
    /\ [][ \A p \in Pipelines :
             (pc[p] = "start" /\ pc'[p] # "start" /\ local'[p].weather = NULL)
             => /\ pc'[p] = "done"
                /\ holds_log' = holds_log
                /\ notification_log' = notification_log
                /\ \A q \in Pipelines \ {p} : pc'[q] = pc[q] /\ local'[q] = local[q]
       ]_vars

\* C6 witness: site A's fetch failed while its lightning hold is due to clear; A has
\* returned with the hold still open, and B goes on with its own hold.
C6_Witness ==
    /\ pc[<<"A", 1>>] = "done" /\ local[<<"A", 1>>].weather = NULL
    /\ \E h \in openHolds("A") :
         h.hold_duration_mins # Null
         /\ now - h.triggered_at >= h.hold_duration_mins * MinuteMs
    /\ pc[<<"B", 1>>] = "alert"

\* C7: within a cycle a throw of one site's pipeline changes nothing of the other
\* pipelines or of poll; once a pipeline has thrown, every unsettled pipeline of an
\* active site still has a step to take, and once all have settled poll can complete.
C7_FailureIsolation ==
    /\ [] ( \A k \in Polls :
              (pollPc[k] = "running" /\ \E s \in sites : pc[<<s, k>>] = "failed")
              => /\ \A t \in sites :
                      pc[<<t, k>>] \in Settled \/ ENABLED PipelineStep(<<t, k>>)
                 /\ (\A t \in sites : pc[<<t, k>>] \in Settled)
                      => ENABLED PollComplete(k) )
    /\ [][ \A p \in Pipelines :
             (pc[p] # "failed" /\ pc'[p] = "failed")
             => /\ pollPc' = pollPc
                /\ \A q \in Pipelines \ {p} : pc'[q] = pc[q] /\ local'[q] = local[q]
       ]_vars

\* C7 witness: poll has completed a cycle in which site A's pipeline threw and
\* site B's pipeline opened a hold and ran to its end.
C7_Witness ==
    /\ pollPc[1] = "idle"
    /\ pc[<<"A", 1>>] = "failed"
    /\ pc[<<"B", 1>>] = "done" /\ local[<<"B", 1>>].hold # NULL
    /\ local[<<"B", 1>>].hold \in openHolds("B")

\* the vehicles of a list that have a contact identifier
eligible(vehicles) == SelectSeq(vehicles, LAMBDA v : v.phone_number # Null)

isDispatch ==
    /\ probe # NULL
    /\ probe.op \in {"sendHoldAlerts", "sendAllClearAlerts"}
    /\ result # NULL

\* C8: sendHoldAlerts and sendAllClearAlerts call the messaging provider once for
\* every vehicle with a contact identifier, in list order, whatever the outcomes.
C8_EveryRecipientAttempted ==
    isDispatch
    => LET e == eligible(probe.vehicles)
           a == result.returned.attempts
       IN /\ ~ result.returned.thrown
          /\ Len(a) = Len(e)
          /\ \A k \in 1..Len(e) :
               a[k].device_id = e[k].device_id /\ a[k].to = e[k].phone_number

\* C8 witness: two vehicles with contacts, the first delivery rejected, and the
\* second one attempted and accepted.
C8_Witness ==
    /\ isDispatch
    /\ Len(probe.vehicles) = 2
    /\ Len(result.returned.attempts) = 2
    /\ ~ result.returned.attempts[1].accepted
    /\ result.returned.attempts[2].accepted

\* C9: whatever the delivery outcomes, the hold dispatch ends with processSite
\* returning normally and the created hold in holds_log; the all-clear dispatch
\* is followed by the call of closeHold.
C9_TransitionProceeds ==
    [][ \A p \in Pipelines :
          /\ (pc[p] = "alert" /\ pc'[p] # "alert")
               => /\ pc'[p] = "done"
                  /\ \E k \in 1..Len(holds_log') :
                       /\ holds_log'[k].id = local[p].hold.id
                       /\ holds_log'[k].site_id = siteOf(p)
                       /\ holds_log'[k].trigger_rule = local[p].hold.trigger_rule
          /\ (pc[p] = "allclear" /\ pc'[p] # "allclear") => pc'[p] = "close"
      ]_vars

\* C9 witness: every all-clear message to the hold's vehicles was rejected and
\* processSite is at its call of closeHold.
C9_Witness ==
    \E p \in Pipelines :
        /\ pc[p] = "close"
        /\ eligible(local[p].activeHold.vehicles_on_site) # << >>
        /\ local[p].notifications = << >>
        /\ BagCardinality(notification_log) = 0

\* C10: for every call of the messaging provider there is a call of logNotification
\* for the same recipient, with a failure status when the provider rejected it.
C10_EveryAttemptLogged ==
    isDispatch
    => \A k \in 1..Len(result.returned.attempts) :
         \E j \in 1..Len(result.returned.logCalls) :
            /\ result.returned.logCalls[j].phone_number = result.returned.attempts[k].to
            /\ result.returned.attempts[k].accepted
               \/ result.returned.logCalls[j].status # "queued"

\* C11: a pipeline whose read of the open hold failed takes no step on an assumed
\* result: it is not found resolving vehicles, creating a hold or alerting.
C11_PersistenceFailurePropagates ==
    \A p \in Pipelines :
        local[p].holdReadFailed => pc[p] \notin {"resolve", "create", "alert"}

isResolve ==
    /\ probe # NULL
    /\ probe.op = "getVehiclesInZone"
    /\ result # NULL

authenticateCalls(calls) == SelectSeq(calls, LAMBDA c : c.method = "Authenticate")

zoneQueries(calls) ==
    SelectSeq(calls, LAMBDA c : c.method = "Get" /\ c.typeName = "DeviceStatusInfo")

\* the requests posted after the first zone query, and whether the authentication
\* that follows it succeeds
afterFirstQuery ==
    LET first == IF probe.cached = Null THEN 2 ELSE 1
    IN SubSeq(result.returned.calls, first + 1, Len(result.returned.calls))

reauthenticated == probe.env.auth[IF probe.cached = Null THEN 2 ELSE 1]

\* C12: when the first zone query fails with a session-expired error, what follows
\* is one Authenticate and, if it succeeds, one more zone query; a failure of that
\* query or of the Authenticate leaves getVehiclesInZone as an error with nothing
\* posted after it. When the first query fails otherwise, the error leaves
\* getVehiclesInZone with nothing posted after the query.
C12_ReauthenticateOnce ==
    (isResolve /\ (probe.cached # Null \/ probe.env.auth[1])
       /\ probe.env.query[1] # "ok")
    => IF probe.env.query[1] \in {"InvalidUserException", "DbUnavailableException"}
       THEN /\ Len(authenticateCalls(afterFirstQuery)) = 1
            /\ afterFirstQuery[1] = AuthenticateCall
            /\ Len(zoneQueries(afterFirstQuery)) = IF reauthenticated THEN 1 ELSE 0
            /\ (~ reauthenticated)
                 => result.returned.thrown /\ Len(afterFirstQuery) = 1
            /\ (reauthenticated /\ probe.env.query[2] # "ok")
                 => result.returned.thrown /\ Len(afterFirstQuery) = 2
            /\ (reauthenticated /\ probe.env.query[2] = "ok")
                 => ~ result.returned.thrown
       ELSE /\ result.returned.thrown
            /\ afterFirstQuery = << >>

\* C12 witness: the cached session has expired, the re-authentication succeeds and
\* the retried query reports an expired session again: the error has left
\* getVehiclesInZone after one Authenticate and two zone queries.
C12_Witness ==
    /\ isResolve
    /\ probe.cached # Null
    /\ probe.env.query[1] = "InvalidUserException"
    /\ probe.env.query[2] = "InvalidUserException"
    /\ result.returned.thrown
    /\ Len(authenticateCalls(result.returned.calls)) = 1
    /\ Len(zoneQueries(result.returned.calls)) = 2

\* the positions of the communicating devices of a status list, and the contact
\* the provider gives for the device at a position
communicating(statuses) ==
    SelectSeq([k \in 1..Len(statuses) |-> k],
              LAMBDA k : statuses[k].isDeviceCommunicating)

contactOf(status, lookup) ==
    IF status.driver # Null /\ lookup[status.driver] = "phone"
    THEN status.driver
    ELSE Null

\* C17: when getVehiclesInZone returns, it returns one vehicle per communicating
\* device, in order, with the operator's contact if the device has an operator whose
\* lookup gave one and with a null contact otherwise, whatever the other lookups
\* did; and a hold dispatch on the returned list ends without an error and makes
\* its attempts to the vehicles with a contact only.
C17_UnresolvedContactKept ==
    (isResolve /\ ~ result.returned.thrown)
    => LET comm == communicating(probe.statuses)
           vehicles == result.returned.vehicles
           d == sendHoldAlerts(1, vehicles, [k \in 1..Len(vehicles) |-> "sent"])
       IN /\ Len(vehicles) = Len(comm)
          /\ \A j \in 1..Len(comm) :
               /\ vehicles[j].device_id = comm[j]
               /\ vehicles[j].phone_number
                    = contactOf(probe.statuses[comm[j]], probe.env.lookup)
          /\ ~ d.thrown
          /\ \A k \in 1..Len(d.attempts) : d.attempts[k].to # Null
          /\ Len(d.attempts)
               = Cardinality({ j \in 1..Len(vehicles) : vehicles[j].phone_number # Null })

\* C17 witness: two communicating devices with different operators, the first
\* operator's lookup threw and the second gave a contact: both vehicles are
\* returned, the first with a null contact.
C17_Witness ==
    /\ isResolve /\ ~ result.returned.thrown
    /\ Len(probe.statuses) = 2
    /\ probe.statuses[1].driver = 1 /\ probe.statuses[2].driver = 2
    /\ probe.env.lookup[1] = "fails" /\ probe.env.lookup[2] = "phone"
    /\ Len(result.returned.vehicles) = 2
    /\ result.returned.vehicles[1].phone_number = Null
    /\ result.returned.vehicles[2].phone_number = 2

\* C13: at most one Authenticate request to the fleet provider is awaiting its
\* response at any time, whatever the pipelines that need a session.
C13_SingleAuthenticationInFlight ==
    Cardinality({ p \in Pipelines : pc[p] \in {"authenticate", "reauthenticate"} }) <= 1

\* a session is cached that this pipeline has seen reported as expired
cachesExpired(p) == _session # Null /\ _session = local[p].session

FleetPositions == {"resolve", "authenticate", "query", "reauthenticate", "retry"}

\* the rows of notification_log of a message type
rowsOfType(log, messageType) ==
    { r \in BagToSet(log) : r.message_type = messageType }

\* C15: a row is added to holds_log only by a pipeline that observed no open hold
\* and whose snapshot breaches, after its vehicles were resolved and before any
\* hold notification: the row is open and has the pipeline's snapshot, the breach's
\* rule and duration and the resolved vehicle list; a pipeline comes to createHold
\* only from the zone query that resolved its vehicles, and to the hold dispatch
\* only from a createHold that inserted its row; hold notifications are logged only
\* by that dispatch, for a hold that is in holds_log.
C15_ClearToActiveOrder ==
    /\ [][ (holds_log' # holds_log /\ Len(holds_log') # Len(holds_log))
           => \E p \in Pipelines :
                LET breach == evaluateThresholds(local[p].weather)
                    row == holds_log'[Len(holds_log')]
                IN /\ pc[p] = "create" /\ pc'[p] = "alert"
                   /\ local[p].activeHold = NULL
                   /\ breach # NULL
                   /\ holds_log' = Append(holds_log, row)
                   /\ row.site_id = siteOf(p)
                   /\ row.weather_snapshot = local[p].weather
                   /\ row.trigger_rule = breach.rule
                   /\ row.hold_duration_mins = breach.hold_duration_mins
                   /\ row.vehicles_on_site = local[p].vehicles
                   /\ row.all_clear_at = Null
                   /\ local'[p].hold = row
                   /\ notification_log' = notification_log
       ]_vars
    /\ [][ \A p \in Pipelines :
             /\ (pc[p] # "create" /\ pc'[p] = "create")
                  => /\ pc[p] \in {"query", "retry"}
                     /\ local'[p].vehicles \in VehicleLists
                     /\ holds_log' = holds_log
             /\ (pc[p] # "alert" /\ pc'[p] = "alert")
                  => pc[p] = "create" /\ Len(holds_log') = Len(holds_log) + 1
       ]_vars
    /\ [][ rowsOfType(notification_log', "hold") # rowsOfType(notification_log, "hold")
           => \E p \in Pipelines :
                /\ pc[p] = "alert"
                /\ \A r \in rowsOfType(notification_log', "hold")
                            \ rowsOfType(notification_log, "hold") :
                     /\ r.hold_id = local[p].hold.id
                     /\ \E k \in 1..Len(holds_log) :
                          holds_log[k].id = local[p].hold.id
       ]_vars

\* C15 witness: a pipeline has resolved a vehicle with a contact, persisted the
\* hold with it and logged the hold notification for that hold.
C15_Witness ==
    \E p \in Pipelines :
        /\ pc[p] = "done"
        /\ local[p].hold # NULL
        /\ \E k \in 1..Len(holds_log) : holds_log[k] = local[p].hold
        /\ eligible(local[p].hold.vehicles_on_site) # << >>
        /\ \E r \in rowsOfType(notification_log, "hold") : r.hold_id = local[p].hold.id

\* the row of holds_log with an id
storedHold(holdId) ==
    holds_log[CHOOSE k \in 1..Len(holds_log) : holds_log[k].id = holdId]

\* C16: the all-clear dispatch calls the messaging provider for the vehicles with a
\* contact of the list stored on the hold's row, in order, and is followed by
\* closeHold; the vehicle list of a row never changes; a pipeline that observed an
\* open hold is never in getVehiclesInZone; and a row's clearing timestamp is set
\* only by the closeHold that follows the dispatch, together with the records the
\* dispatch returned.
C16_AllClearFromStoredList ==
    /\ [][ \A p \in Pipelines :
             (pc[p] = "allclear" /\ pc'[p] # "allclear")
             => LET e == eligible(storedHold(local[p].activeHold.id).vehicles_on_site)
                    a == local'[p].attempted
                IN /\ pc'[p] = "close"
                   /\ Len(a) = Len(e)
                   /\ \A k \in 1..Len(e) :
                        a[k].device_id = e[k].device_id /\ a[k].to = e[k].phone_number
                   /\ holds_log' = holds_log
                   /\ _session' = _session
       ]_vars
    /\ [][ \A k \in 1..Len(holds_log) :
             /\ holds_log'[k].vehicles_on_site = holds_log[k].vehicles_on_site
             /\ holds_log'[k].all_clear_at # holds_log[k].all_clear_at
                  => \E p \in Pipelines :
                       /\ pc[p] = "close" /\ pc'[p] = "done"
                       /\ local[p].activeHold.id = holds_log[k].id
                       /\ holds_log'[k].all_clear_at = now
                       /\ holds_log'[k].notifications_sent = local[p].notifications
       ]_vars
    /\ [] ( \A p \in Pipelines :
              (pc[p] \in {"allclear", "close"} \/ local[p].activeHold # NULL)
              => pc[p] \notin FleetPositions )

\* C16 witness: a hold stored with a vehicle with a contact has been closed with
\* the all-clear record of that vehicle attached.
C16_Witness ==
    \E k \in 1..Len(holds_log) :
        /\ holds_log[k].all_clear_at # Null
        /\ eligible(holds_log[k].vehicles_on_site) # << >>
        /\ Len(holds_log[k].notifications_sent) = 1
        /\ holds_log[k].notifications_sent[1].message_type = "all_clear"
        /\ holds_log[k].notifications_sent[1].phone_number
             = holds_log[k].vehicles_on_site[1].phone_number

\* site s has an open hold of fixed duration whose duration has elapsed
dueHold(s) ==
    \E h \in openHolds(s) :
        /\ h.hold_duration_mins # Null
        /\ now - h.triggered_at >= h.hold_duration_mins * MinuteMs

isEvaluation ==
    /\ probe # NULL
    /\ probe.op = "evaluateThresholds"
    /\ result # NULL

windRules == {"HIGH_WIND_GENERAL", "HIGH_WIND_MATERIAL_HANDLING"}

\* C19: in both presets the wind-general threshold is above the
\* wind-material-handling threshold; evaluateThresholds returns
\* wind-material-handling only when the gust is at or above the material threshold
\* and below the general one and the lightning probability is below its threshold;
\* and at most one wind rule is among the breaches of an evaluation.
C19_WindRulesExclusive ==
    /\ PROD.highWindGeneralMph > PROD.highWindMaterialMph
    /\ DEMO.highWindGeneralMph > DEMO.highWindMaterialMph
    /\ isEvaluation
       => /\ (result.returned # NULL
                /\ result.returned.rule = "HIGH_WIND_MATERIAL_HANDLING")
              => /\ probe.weather.wind_gust_mph >= getThresholds.highWindMaterialMph
                 /\ probe.weather.wind_gust_mph < getThresholds.highWindGeneralMph
                 /\ probe.weather.lightning_probability_pct < getThresholds.lightningPct
          /\ LET breaches == pushedBreaches(probe.weather)
             IN Cardinality({ k \in 1..Len(breaches) : breaches[k].rule \in windRules })
                  <= 1

\* C19 witness: the gust is one below the general threshold, and
\* wind-material-handling has been returned.
C19_Witness ==
    /\ isEvaluation
    /\ probe.weather.wind_gust_mph = getThresholds.highWindGeneralMph - 1
    /\ result.returned # NULL
    /\ result.returned.rule = "HIGH_WIND_MATERIAL_HANDLING"

\* snapshot weather with another sustained wind speed
withSustained(weather, mph) == [weather EXCEPT !.wind_speed_mph = mph]

\* C20: evaluateThresholds and shouldClearHold give the same result for snapshots
\* that differ in the sustained wind speed only, and the value of a wind breach is
\* the gust speed.
C20_GustOnly ==
    /\ isEvaluation
       => /\ \A mph \in SustainedSamples :
               evaluateThresholds(withSustained(probe.weather, mph)) = result.returned
          /\ (result.returned # NULL /\ result.returned.rule \in windRules)
               => result.returned.value = probe.weather.wind_gust_mph
    /\ (probe # NULL /\ probe.op = "shouldClearHold" /\ result # NULL)
       => \A mph \in SustainedSamples :
            shouldClearHold(probe.rule, withSustained(probe.weather, mph),
                            probe.triggeredAt, probe.holdDurationMins)
              = result.returned

\* C20 witness: the sustained speed is above the wind-general threshold and the
\* gust below the material-handling one, and no wind breach has been returned.
C20_Witness ==
    /\ isEvaluation
    /\ probe.weather.wind_speed_mph >= getThresholds.highWindGeneralMph
    /\ probe.weather.wind_gust_mph < getThresholds.highWindMaterialMph
    /\ probe.weather.lightning_probability_pct < getThresholds.lightningPct
    /\ probe.weather.apparent_temp_c < getThresholds.extremeHeatC
    /\ result.returned = NULL

\* C21: a breach returned by evaluateThresholds has the snapshot's measurement for
\* its rule as value, the active preset's threshold for its rule as threshold, and
\* duration 30 for lightning and null for every other rule; the example snapshot
\* yields wind-general/42/40/null under production and wind-general/42/5/null under
\* demonstration.
C21_BreachFields ==
    (probe # NULL /\ probe.op = "evaluateThresholds" /\ result # NULL)
    => /\ result.returned # NULL
            => /\ result.returned.value
                    = measured(result.returned.rule, probe.weather)
               /\ result.returned.threshold = thresholdOf(result.returned.rule)
               /\ result.returned.hold_duration_mins
                    = IF result.returned.rule = "LIGHTNING_30_30" THEN 30 ELSE Null
       /\ probe.weather = ExampleSnapshot
            => result.returned
                 = [ rule |-> "HIGH_WIND_GENERAL", value |-> 42,
                     threshold |-> IF demoMode THEN 5 ELSE 40,
                     hold_duration_mins |-> Null ]

\* C21 witness: the example snapshot has been evaluated under the demonstration
\* preset and the breach carries the threshold 5.
C21_Witness ==
    /\ probe # NULL /\ probe.op = "evaluateThresholds" /\ result # NULL
    /\ probe.weather = ExampleSnapshot
    /\ demoMode
    /\ result.returned # NULL
    /\ result.returned.threshold = 5

\* C22: capeToProbability does not decrease from an energy to the next tenth of a
\* J/kg, also across 100, 500 and 1500 J/kg, and maps exactly 100 J/kg to 10,
\* 500 J/kg to 30 and 1500 J/kg to 60.
C22_Monotone ==
    (probe # NULL /\ probe.op = "capeToProbability" /\ result # NULL)
    => /\ result.returned <= capeToProbability(probe.cape + 1)
       /\ probe.cape = 1000 => result.returned = 10
       /\ probe.cape = 5000 => result.returned = 30
       /\ probe.cape = 15000 => result.returned = 60

\* C22 witness: the energy just below 100 J/kg has been mapped, to the value 100
\* J/kg itself maps to.
C22_Witness ==
    /\ probe # NULL /\ probe.op = "capeToProbability" /\ result # NULL
    /\ probe.cape = 999
    /\ result.returned = 10

\* C23: the lightning probability of a snapshot fetchWeather produces lies in
\* 0..100 for every energy figure and weather code of the provider, and the
\* probability of an energy figure alone never exceeds 90.
C23_ProbabilityRange ==
    /\ (probe # NULL /\ probe.op = "fetchWeather" /\ result # NULL
          /\ ~ result.returned.thrown)
       => result.returned.snapshot.lightning_probability_pct \in 0..100
    /\ (probe # NULL /\ probe.op = "fetchWeather" /\ result # NULL
          /\ ~ result.returned.thrown
          /\ probe.data.current.weather_code \notin {95, 96, 99})
       => result.returned.snapshot.lightning_probability_pct <= 90
    /\ (probe # NULL /\ probe.op = "capeToProbability" /\ result # NULL)
       => result.returned <= 90

\* C23 witness: a response with 4000 J/kg, beyond the energy at which the last
\* bucket reaches the cap, and a code that is no thunderstorm has been turned into a
\* snapshot with probability 90.
C23_Witness ==
    /\ probe # NULL /\ probe.op = "fetchWeather" /\ result # NULL
    /\ ~ result.returned.thrown
    /\ probe.data.lightning_potential = 40000
    /\ probe.data.current.weather_code = 3
    /\ result.returned.snapshot.lightning_probability_pct = 90

\* the probability of the energy figure of a response alone
derivedOf(data) ==
    capeToProbability(IF data.lightning_potential = Null
                      THEN 0 ELSE data.lightning_potential)

C25_LightningStrictlyAbove ==
    (probe # NULL /\ probe.op = "evaluateThresholds" /\ result # NULL
       /\ ~ demoMode /\ result.returned # NULL
       /\ result.returned.rule = "LIGHTNING_30_30")
    => probe.weather.lightning_probability_pct > 40

\* C28: once getVehiclesInZone has re-authenticated, every request it posts
\* afterwards, the retried zone query and the User lookups, carries the session
\* the re-authentication returned.
C28_NewSessionAfterReauthentication ==
    (isResolve /\ (probe.cached # Null \/ probe.env.auth[1])
       /\ probe.env.query[1] \in {"InvalidUserException", "DbUnavailableException"}
       /\ reauthenticated)
    => \A k \in 2..Len(afterFirstQuery) :
          afterFirstQuery[k].method = "Get"
            => afterFirstQuery[k].session = result.returned.session

\* the pipelines of a site that have been started and have not returned or thrown
inFlight(siteId) ==
    { p \in Pipelines : siteOf(p) = siteId /\ pc[p] \notin Settled \cup {"idle"} }

\* C26: at any time at most one pipeline is in flight for a site, also when the
\* timer starts a cycle while an earlier one has not finished.
C26_OnePipelinePerSite ==
    \A s \in Sites : Cardinality(inFlight(s)) <= 1

\* C27: no recipient is sent more than one all-clear message for the same hold,
\* whatever calls fail in the cycles so far: notification_log has at most one
\* all-clear row per hold and contact.
C27_OneAllClearPerHold ==
    \A r \in rowsOfType(notification_log, "all_clear") :
        CopiesIn(r, notification_log) <= 1

\* the pipelines that have written to holds_log in their run
opened(p) == local[p].hold # NULL

\* C29: a pipeline that observed an open hold never resolves vehicles, creates a
\* hold or sends hold alerts, also when its snapshot breaches a rule: after
\* closeHold it returns or throws, with no row added; a row is added only by a
\* pipeline that observed no open hold.
C29_OneTransitionPerCycle ==
    /\ [] ( \A p \in Pipelines :
              local[p].activeHold # NULL
              => /\ pc[p] \notin FleetPositions \cup {"create", "alert"}
                 /\ ~ opened(p) )
    /\ [][ \A p \in Pipelines :
             (pc[p] = "close" /\ pc'[p] # "close")
             => /\ pc'[p] \in Settled
                /\ Len(holds_log') = Len(holds_log)
       ]_vars
    /\ [][ Len(holds_log') # Len(holds_log)
           => \E p \in Pipelines :
                /\ pc[p] = "create"
                /\ local[p].activeHold = NULL
                /\ ~ opened(p)
                /\ Len(holds_log') = Len(holds_log) + 1
       ]_vars

\* C29 witness: a pipeline whose snapshot breaches every rule has closed the
\* lightning hold it observed and has returned; the site is left with no open
\* hold and no second row.
C29_Witness ==
    \E p \in Pipelines :
        /\ pc[p] = "done"
        /\ local[p].activeHold # NULL
        /\ local[p].weather # NULL
        /\ local[p].weather.wind_gust_mph = 42
        /\ local[p].weather.lightning_probability_pct = 50
        /\ storedHold(local[p].activeHold.id).all_clear_at # Null
        /\ openHolds(siteOf(p)) = {}
        /\ Len(holds_log) = 1

\* C30: every row of holds_log a pipeline inserted is issued by 'auto', is inserted
\* open, and has the duration 30 if its rule is lightning and no duration
\* otherwise; so no row has the lightning rule without a duration, and for every
\* row there is a snapshot or an elapsed time at which shouldClearHold is true.
C30_PipelineHoldsClearable ==
    /\ [] ( \A k \in 1..Len(holds_log) :
              LET h == holds_log[k]
              IN /\ h.issued_by = "auto"
                 /\ h.hold_duration_mins
                      = IF h.trigger_rule = "LIGHTNING_30_30" THEN 30 ELSE Null
                 /\ \/ h.hold_duration_mins # Null
                    \/ \E w \in WeatherSamples :
                         shouldClearHold(h.trigger_rule, w, h.triggered_at,
                                         h.hold_duration_mins) )
    /\ [][ Len(holds_log') > Len(holds_log)
           => holds_log'[Len(holds_log')].all_clear_at = Null
       ]_vars

\* C30 witness: a pipeline has inserted a lightning row with the duration 30 and
\* is about to send the hold alerts.
C30_Witness ==
    \E p \in Pipelines :
        /\ pc[p] = "alert"
        /\ local[p].hold.trigger_rule = "LIGHTNING_30_30"
        /\ storedHold(local[p].hold.id).hold_duration_mins = 30
        /\ storedHold(local[p].hold.id).all_clear_at = Null

====
